---- MODULE Spec2Model ----
(***************************************************************************)
(* A model of src/search_engine.py: class SearchEngine.                    *)
(*                                                                         *)
(* Text is a sequence of one-character strings.  A term is a sequence of   *)
(* characters too.  The corpus directory is fixed for the lifetime of the  *)
(* process (spec.md section 1: "a fixed corpus"); a file of the directory  *)
(* is either readable, with some content, or unreadable (open or decode    *)
(* raises).  A Python set has no defined iteration order: the order is a   *)
(* function of the process's string hashes, so it is fixed inside one      *)
(* process (hash_order) and free between two processes.                    *)
(***************************************************************************)
EXTENDS Integers, Sequences, FiniteSets, TLC

VARIABLES
    files,            \* the directory webpages_dir: filename -> [ok, data]
    hash_order,       \* iteration order of sets of filenames in this process
    inverted_index,   \* self.inverted_index: term -> set of filenames
    term_frequency,   \* self.term_frequency: term -> (filename -> count)
    documents,        \* self.documents: list of filenames
    last_call,        \* the last method call: what it returned and printed
    other             \* a second SearchEngine, in a process of its own

vars == <<files, hash_order, inverted_index, term_frequency, documents,
          last_call, other>>

\* ------------------------------------------------------------------ bounds
\* the longest query, in words
MaxQueryWords == 3

\* ------------------------------------------------------- program constants
\* len(token) > 1
MinTokenLen == 1

\* --------------------------------------------------------------- sequences
Range(s) == {s[i] : i \in DOMAIN s}

RECURSIVE Join(_, _)
Join(ws, sep) ==
    IF Len(ws) = 0 THEN <<>>
    ELSE IF Len(ws) = 1 THEN ws[1]
    ELSE ws[1] \o sep \o Join(Tail(ws), sep)

SeqsUpTo(S, n) == UNION {[1..k -> S] : k \in 0..n}

Perms(S) == {p \in [1..Cardinality(S) -> S] : Range(p) = S}

\* -------------------------------------------------------------- characters
LowerCase == {"a", "o", "t"}
UpperCase == {"A", "O", "T"}
WhiteSpace == {" "}

\* str.lower() on one character
lower_char(c) ==
    CASE c = "A" -> "a"
      [] c = "O" -> "o"
      [] c = "T" -> "t"
      [] OTHER -> c

\* str.lower()
lower(text) == [i \in 1..Len(text) |-> lower_char(text[i])]

\* the class \w of re: letters, digits and the underscore
is_word_char(c) == c \in LowerCase \cup UpperCase \cup {"_"}

\* re.findall(r"\b\w+\b", text): the maximal runs of word characters
RECURSIVE findall_from(_, _, _, _)
findall_from(text, i, run, acc) ==
    IF i > Len(text)
    THEN IF run = <<>> THEN acc ELSE Append(acc, run)
    ELSE IF is_word_char(text[i])
         THEN findall_from(text, i + 1, Append(run, text[i]), acc)
         ELSE findall_from(text, i + 1, <<>>,
                           IF run = <<>> THEN acc ELSE Append(acc, run))

findall(text) == findall_from(text, 1, <<>>, <<>>)

\* str.strip(): drop leading and trailing whitespace
RECURSIVE lstrip(_)
lstrip(text) ==
    IF text # <<>> /\ Head(text) \in WhiteSpace THEN lstrip(Tail(text)) ELSE text

RECURSIVE rstrip(_)
rstrip(text) ==
    IF text # <<>> /\ text[Len(text)] \in WhiteSpace
    THEN rstrip(SubSeq(text, 1, Len(text) - 1))
    ELSE text

strip(text) == rstrip(lstrip(text))

\* BeautifulSoup(content, "html.parser").get_text(): the text outside tags
RECURSIVE get_text_from(_, _, _, _)
get_text_from(content, i, in_tag, acc) ==
    IF i > Len(content) THEN acc
    ELSE IF in_tag
         THEN get_text_from(content, i + 1, content[i] # ">", acc)
         ELSE IF content[i] = "<"
              THEN get_text_from(content, i + 1, TRUE, acc)
              ELSE get_text_from(content, i + 1, FALSE, Append(acc, content[i]))

get_text(content) == get_text_from(content, 1, FALSE, <<>>)

\* --------------------------------------------------------------- stopwords
\* _load_stopwords()
stopwords == {
    <<"a">>, <<"a","n">>, <<"t","h","e">>, <<"a","n","d">>, <<"o","r">>,
    <<"b","u","t">>, <<"i","s">>, <<"a","r","e">>, <<"w","a","s">>,
    <<"w","e","r","e">>, <<"i","n">>, <<"o","n">>, <<"a","t">>, <<"t","o">>,
    <<"f","o","r">>, <<"w","i","t","h">>, <<"b","y">>,
    <<"a","b","o","u","t">>, <<"l","i","k","e">>, <<"f","r","o","m">>,
    <<"o","f">>, <<"a","s">>, <<"t","h","i","s">>, <<"t","h","a","t">>,
    <<"t","h","e","s","e">>, <<"t","h","o","s","e">>, <<"i","t">>,
    <<"i","t","s">> }

\* keep_token with the length test off by one: len(token) >= 1
keep_token_short(token) == token \notin stopwords /\ Len(token) >= MinTokenLen

\* token not in self.stopwords and len(token) > 1
keep_token(token) == token \notin stopwords /\ Len(token) > MinTokenLen

\* the list comprehension of parse_document and of search
filter_tokens(tokens) == SelectSeq(tokens, keep_token)


\* ------------------------------------------------------ dict, set, Counter
\* d[k] = v
Put(d, k, v) == [x \in DOMAIN d \cup {k} |-> IF x = k THEN v ELSE d[x]]

\* defaultdict.__getitem__: a missing key is inserted with the default value
dd_getitem(d, k, default) == IF k \in DOMAIN d THEN d ELSE Put(d, k, default)

\* Counter.__getitem__: a missing key counts 0 and is not inserted
counter_get(c, k) == IF k \in DOMAIN c THEN c[k] ELSE 0

\* Counter(tokens): one increment per token
RECURSIVE Counter(_)
Counter(tokens) ==
    IF tokens = <<>> THEN <<>>
    ELSE LET c == Counter(SubSeq(tokens, 1, Len(tokens) - 1))
             t == tokens[Len(tokens)]
         IN  Put(c, t, counter_get(c, t) + 1)

\* the keys of a Counter, in insertion order
RECURSIVE first_seen(_, _)
first_seen(tokens, acc) ==
    IF tokens = <<>> THEN acc
    ELSE first_seen(Tail(tokens),
                    IF Head(tokens) \in Range(acc) THEN acc
                    ELSE Append(acc, Head(tokens)))

\* iterating a set of filenames: the process's hash order decides
iterate(S, order) == SelectSeq(order, LAMBDA f : f \in S)

\* str.endswith
endswith(s, suffix) ==
    /\ Len(s) >= Len(suffix)
    /\ SubSeq(s, Len(s) - Len(suffix) + 1, Len(s)) = suffix

\* ---------------------------------------------------------- parse_document
\* tf_store counting from 0: the first occurrence is not counted
tf_store_less(tf, token, filename, n) ==
    LET tf1 == dd_getitem(tf, token, <<>>)
    IN  Put(tf1, token, Put(tf1[token], filename, n - 1))

\* tf_store with += for =: indexing a document again adds to its counts
tf_store_add(tf, token, filename, n) ==
    LET tf1 == dd_getitem(tf, token, <<>>)
    IN  Put(tf1, token,
            Put(tf1[token], filename, counter_get(tf1[token], filename) + n))

\* self.term_frequency[token][filename] = term_counts[token]
tf_store(tf, token, filename, n) ==
    LET tf1 == dd_getitem(tf, token, <<>>)
    IN  Put(tf1, token, Put(tf1[token], filename, n))

\* self.inverted_index[token].add(filename)
ii_add(ii, token, filename) ==
    LET ii1 == dd_getitem(ii, token, {})
    IN  Put(ii1, token, ii1[token] \cup {filename})

\* for token in term_counts: ...
RECURSIVE index_loop(_, _, _, _, _)
index_loop(ii, tf, keys, term_counts, filename) ==
    IF keys = <<>> THEN [inverted_index |-> ii, term_frequency |-> tf]
    ELSE LET token == Head(keys)
         IN  index_loop(ii_add(ii, token, filename),
                        tf_store(tf, token, filename, term_counts[token]),
                        Tail(keys), term_counts, filename)

\* open(filepath).read() raises: no such file, or the file cannot be decoded
read_raises(filename) == filename \notin DOMAIN files \/ ~files[filename].ok

\* the terms of a file's content, as parse_document tokenizes it
tokens_of(content) == filter_tokens(findall(lower(get_text(content))))

parse_document(ii, tf, filename) ==
    IF read_raises(filename)
    THEN [ret |-> FALSE, inverted_index |-> ii, term_frequency |-> tf]
    ELSE LET filtered_tokens == tokens_of(files[filename].data)
             term_counts == Counter(filtered_tokens)
             done == index_loop(ii, tf, first_seen(filtered_tokens, <<>>),
                                term_counts, filename)
         IN  [ret |-> TRUE,
              inverted_index |-> done.inverted_index,
              term_frequency |-> done.term_frequency]

\* ------------------------------------------------------------- build_index
HTML == <<".", "h", "t", "m", "l">>
HTM == <<".", "h", "t", "m">>

\* build_loop that gives up at the first file that fails to parse
RECURSIVE build_loop_abort(_, _, _, _, _)
build_loop_abort(ii, tf, docs, listing, log) ==
    IF listing = <<>>
    THEN [inverted_index |-> ii, term_frequency |-> tf, documents |-> docs,
          log |-> log]
    ELSE LET filename == Head(listing)
         IN  IF endswith(filename, HTML) \/ endswith(filename, HTM)
             THEN LET r == parse_document(ii, tf, filename)
                      log1 == Append(log, [filename |-> filename, ret |-> r.ret])
                  IN  IF r.ret
                      THEN build_loop_abort(r.inverted_index, r.term_frequency,
                                            Append(docs, filename),
                                            Tail(listing), log1)
                      ELSE [inverted_index |-> ii, term_frequency |-> tf,
                            documents |-> docs, log |-> log1]
             ELSE build_loop_abort(ii, tf, docs, Tail(listing), log)

\* for filename in os.listdir(self.webpages_dir): ...
RECURSIVE build_loop(_, _, _, _, _)
build_loop(ii, tf, docs, listing, log) ==
    IF listing = <<>>
    THEN [inverted_index |-> ii, term_frequency |-> tf, documents |-> docs,
          log |-> log]
    ELSE LET filename == Head(listing)
         IN  IF endswith(filename, HTML) \/ endswith(filename, HTM)
             THEN LET r == parse_document(ii, tf, filename)
                  IN  build_loop(r.inverted_index, r.term_frequency,
                                 IF r.ret THEN Append(docs, filename) ELSE docs,
                                 Tail(listing),
                                 Append(log, [filename |-> filename, ret |-> r.ret]))
             ELSE build_loop(ii, tf, docs, Tail(listing), log)

\* self.documents = [] and the loop; log is the parse_document calls made
build_index(ii, tf, listing) == build_loop(ii, tf, <<>>, listing, <<>>)

\* ------------------------------------------------------------------ search
EMPTY_QUERY == "Empty query. Please enter some search terms."
ALL_STOPWORDS == "Query contains only stopwords. Please use more specific terms."
TERM_NOT_FOUND == "Term not found in any document."
NO_INTERSECTION == "No documents found matching all query terms."
RESULTS == "results"

\* matching_docs = None
None == [none |-> TRUE, docs |-> {}]

\* term in self.inverted_index
term_known(ii, term) == term \in DOMAIN ii

\* match_loop with |= for &=: a document with any of the terms matches
RECURSIVE match_loop_union(_, _, _, _)
match_loop_union(ii, terms, matching_docs, looked) ==
    IF terms = <<>>
    THEN [found |-> TRUE, term |-> <<>>, matching_docs |-> matching_docs,
          looked |-> looked, inverted_index |-> ii]
    ELSE LET term == Head(terms)
         IN  IF term_known(ii, term)
             THEN LET ii1 == dd_getitem(ii, term, {})
                  IN  match_loop_union(ii1, Tail(terms),
                                       [none |-> FALSE,
                                        docs |-> matching_docs.docs \cup ii1[term]],
                                       looked + 1)
             ELSE [found |-> FALSE, term |-> term, matching_docs |-> matching_docs,
                   looked |-> looked + 1, inverted_index |-> ii]

\* match_loop that drops a term that is no key and goes on with the next
RECURSIVE match_loop_skip(_, _, _, _)
match_loop_skip(ii, terms, matching_docs, looked) ==
    IF terms = <<>>
    THEN [found |-> TRUE, term |-> <<>>, matching_docs |-> matching_docs,
          looked |-> looked, inverted_index |-> ii]
    ELSE LET term == Head(terms)
         IN  IF term_known(ii, term)
             THEN LET ii1 == dd_getitem(ii, term, {})
                  IN  match_loop_skip(ii1, Tail(terms),
                                      IF matching_docs.none
                                      THEN [none |-> FALSE, docs |-> ii1[term]]
                                      ELSE [none |-> FALSE,
                                            docs |-> matching_docs.docs \cap ii1[term]],
                                      looked + 1)
             ELSE match_loop_skip(ii, Tail(terms), matching_docs, looked + 1)

\* match_loop that tests self.inverted_index[term] for term in
\* self.inverted_index: the lookup inserts the missing key
RECURSIVE match_loop_touch(_, _, _, _)
match_loop_touch(ii, terms, matching_docs, looked) ==
    IF terms = <<>>
    THEN [found |-> TRUE, term |-> <<>>, matching_docs |-> matching_docs,
          looked |-> looked, inverted_index |-> ii]
    ELSE LET term == Head(terms)
             ii1 == dd_getitem(ii, term, {})
         IN  IF ii1[term] # {}
             THEN match_loop_touch(ii1, Tail(terms),
                                   IF matching_docs.none
                                   THEN [none |-> FALSE, docs |-> ii1[term]]
                                   ELSE [none |-> FALSE,
                                         docs |-> matching_docs.docs \cap ii1[term]],
                                   looked + 1)
             ELSE [found |-> FALSE, term |-> term, matching_docs |-> matching_docs,
                   looked |-> looked + 1, inverted_index |-> ii1]

\* for term in filtered_terms: ... ; looked counts the terms looked up
RECURSIVE match_loop(_, _, _, _)
match_loop(ii, terms, matching_docs, looked) ==
    IF terms = <<>>
    THEN [found |-> TRUE, term |-> <<>>, matching_docs |-> matching_docs,
          looked |-> looked, inverted_index |-> ii]
    ELSE LET term == Head(terms)
         IN  IF term_known(ii, term)
             THEN LET ii1 == dd_getitem(ii, term, {})
                  IN  match_loop(ii1, Tail(terms),
                                 IF matching_docs.none
                                 THEN [none |-> FALSE, docs |-> ii1[term]]
                                 ELSE [none |-> FALSE,
                                       docs |-> matching_docs.docs \cap ii1[term]],
                                 looked + 1)
             ELSE [found |-> FALSE, term |-> term, matching_docs |-> matching_docs,
                   looked |-> looked + 1, inverted_index |-> ii]

\* score_sum over set(filtered_terms): a repeated term counts once
RECURSIVE score_sum_set(_, _, _)
score_sum_set(tf, terms, doc) ==
    IF terms = <<>> THEN [score |-> 0, term_frequency |-> tf]
    ELSE LET term == Head(terms)
         IN  IF term \in DOMAIN tf /\ term \notin Range(Tail(terms))
             THEN LET tf1 == dd_getitem(tf, term, <<>>)
                      rest == score_sum_set(tf1, Tail(terms), doc)
                  IN  [score |-> counter_get(tf1[term], doc) + rest.score,
                       term_frequency |-> rest.term_frequency]
             ELSE score_sum_set(tf, Tail(terms), doc)

\* sum(self.term_frequency[term][doc] for term in filtered_terms
\*     if term in self.term_frequency)
RECURSIVE score_sum(_, _, _)
score_sum(tf, terms, doc) ==
    IF terms = <<>> THEN [score |-> 0, term_frequency |-> tf]
    ELSE LET term == Head(terms)
         IN  IF term \in DOMAIN tf
             THEN LET tf1 == dd_getitem(tf, term, <<>>)
                      rest == score_sum(tf1, Tail(terms), doc)
                  IN  [score |-> counter_get(tf1[term], doc) + rest.score,
                       term_frequency |-> rest.term_frequency]
             ELSE score_sum(tf, Tail(terms), doc)

\* for doc in matching_docs: ranked_results.append((doc, score))
RECURSIVE score_loop(_, _, _, _)
score_loop(tf, terms, docs, ranked_results) ==
    IF docs = <<>>
    THEN [ranked_results |-> ranked_results, term_frequency |-> tf]
    ELSE LET s == score_sum(tf, terms, Head(docs))
         IN  score_loop(s.term_frequency, terms, Tail(docs),
                        Append(ranked_results, <<Head(docs), s.score>>))

\* insert_desc without reverse=True: ascending
RECURSIVE insert_asc(_, _)
insert_asc(sorted, x) ==
    IF sorted = <<>> THEN <<x>>
    ELSE IF Head(sorted)[2] <= x[2]
         THEN <<Head(sorted)>> \o insert_asc(Tail(sorted), x)
         ELSE <<x>> \o sorted

\* the place of x in a list sorted by score, descending: after its equals
RECURSIVE insert_desc(_, _)
insert_desc(sorted, x) ==
    IF sorted = <<>> THEN <<x>>
    ELSE IF Head(sorted)[2] >= x[2]
         THEN <<Head(sorted)>> \o insert_desc(Tail(sorted), x)
         ELSE <<x>> \o sorted

\* list.sort(key=lambda x: x[1], reverse=True): stable
RECURSIVE sort_desc(_)
sort_desc(list) ==
    IF list = <<>> THEN <<>>
    ELSE insert_desc(sort_desc(SubSeq(list, 1, Len(list) - 1)), list[Len(list)])

search(ii, tf, order, query) ==
    LET quiet == [ret |-> <<>>, disposition |-> EMPTY_QUERY, term |-> <<>>,
                  looked |-> 0, inverted_index |-> ii, term_frequency |-> tf]
    IN
    IF strip(query) = <<>>
    THEN quiet
    ELSE LET filtered_terms == filter_tokens(findall(lower(query)))
         IN
         IF filtered_terms = <<>>
         THEN [quiet EXCEPT !.disposition = ALL_STOPWORDS]
         ELSE LET m == match_loop(ii, filtered_terms, None, 0)
              IN
              IF ~m.found
              THEN [ret |-> <<>>, disposition |-> TERM_NOT_FOUND,
                    term |-> m.term, looked |-> m.looked,
                    inverted_index |-> m.inverted_index, term_frequency |-> tf]
              ELSE IF m.matching_docs.none \/ m.matching_docs.docs = {}
              THEN [ret |-> <<>>, disposition |-> NO_INTERSECTION,
                    term |-> <<>>, looked |-> m.looked,
                    inverted_index |-> m.inverted_index, term_frequency |-> tf]
              ELSE LET r == score_loop(tf, filtered_terms,
                                       iterate(m.matching_docs.docs, order), <<>>)
                   IN  [ret |-> sort_desc(r.ranked_results),
                        disposition |-> RESULTS,
                        term |-> <<>>, looked |-> m.looked,
                        inverted_index |-> m.inverted_index,
                        term_frequency |-> r.term_frequency]

\* ------------------------------------------------------------------ inputs
docA == <<"A", ".", "h", "t", "m", "l">>
docB == <<"B", ".", "h", "t", "m">>
notes == <<"N", ".", "t", "x", "t">>
\* a name that is not in the directory
docC == <<"C", ".", "h", "t", "m", "l">>

Directory == {docA, docB, notes}
\* the names parse_document is called with
FileNames == {docA, docB, docC}

\* "TT at", "<t>tt oo Tt", "oo at t"
ContentP == <<"T", "T", " ", "a", "t">>
ContentR == <<"<", "t", ">", "t", "t", " ", "o", "o", " ", "T", "t">>
ContentQ == <<"o", "o", " ", "a", "t", " ", "t">>

\* "A.html http://tt"
NotesContent == <<"A", ".", "h", "t", "m", "l", " ", "h", "t", "t", "p",
                  ":", "/", "/", "t", "t">>

Readable(data) == [ok |-> TRUE, data |-> data]
Unreadable == [ok |-> FALSE, data |-> <<>>]

Corpora ==
    {[f \in Directory |-> IF f = docA THEN a ELSE IF f = docB THEN b
                          ELSE Readable(NotesContent)] :
        a, b \in {Readable(ContentP), Readable(ContentR), Readable(ContentQ),
                  Unreadable}}

\* "tt", "Oo-", "ta"
QueryWords == {<<"t", "t">>, <<"O", "o", "-">>, <<"t", "a">>}

\* "", " ", "-", "at t", "tt at"
OddQueries == {
    <<>>, <<" ">>, <<"-">>, <<"a", "t", " ", "t">>, <<"t", "t", " ", "a", "t">> }

Queries ==
    OddQueries \cup
    {Join(ws, <<" ">>) : ws \in SeqsUpTo(QueryWords, MaxQueryWords) \ {<<>>}}

\* a SearchEngine after __init__
Fresh(order) ==
    [inverted_index |-> <<>>, term_frequency |-> <<>>, documents |-> <<>>,
     hash_order |-> order,
     last_call |-> [op |-> "init", arg |-> <<>>, ok |-> TRUE, ret |-> <<>>,
                    disposition |-> "", term |-> <<>>, looked |-> 0,
                    log |-> <<>>]]

\* --------------------------------------------------------------- the engine
\* One step is one whole method call; r is what the call computed.
Init ==
    /\ files \in Corpora
    /\ \E order \in Perms({docA, docB}) :
          /\ hash_order = order
          /\ inverted_index = Fresh(order).inverted_index
          /\ term_frequency = Fresh(order).term_frequency
          /\ documents = Fresh(order).documents
          /\ last_call = Fresh(order).last_call
    /\ other = <<>>

ParseDocument(filename) ==
    \E r \in {parse_document(inverted_index, term_frequency, filename)} :
        /\ inverted_index' = r.inverted_index
        /\ term_frequency' = r.term_frequency
        /\ last_call' = [op |-> "parse_document", arg |-> filename,
                         ok |-> r.ret, ret |-> <<>>, disposition |-> "",
                         term |-> <<>>, looked |-> 0, log |-> <<>>]
        /\ UNCHANGED <<files, hash_order, documents, other>>

\* engine.build_index() on this engine
DoBuild(listing) ==
    \E r \in {build_index(inverted_index, term_frequency, listing)} :
        /\ inverted_index' = r.inverted_index
        /\ term_frequency' = r.term_frequency
        /\ documents' = r.documents
        /\ last_call' = [op |-> "build_index", arg |-> <<>>, ok |-> TRUE,
                         ret |-> <<>>, disposition |-> "", term |-> <<>>,
                         looked |-> 0, log |-> r.log]

BuildIndex(listing) ==
    /\ DoBuild(listing)
    /\ UNCHANGED <<files, hash_order, other>>

\* engine.search(query) on this engine
DoSearch(query) ==
    \E r \in {search(inverted_index, term_frequency, hash_order, query)} :
        /\ inverted_index' = r.inverted_index
        /\ term_frequency' = r.term_frequency
        /\ last_call' = [op |-> "search", arg |-> query, ok |-> TRUE,
                         ret |-> r.ret, disposition |-> r.disposition,
                         term |-> r.term, looked |-> r.looked, log |-> <<>>]

Search(query) ==
    /\ DoSearch(query)
    /\ UNCHANGED <<files, hash_order, documents, other>>

Next ==
    \/ \E filename \in FileNames : ParseDocument(filename)
    \/ \E listing \in Perms(Directory) : BuildIndex(listing)
    \/ \E query \in Queries : Search(query)

Spec == Init /\ [][Next]_vars

\* ------------------------------------------------- two engines, one corpus
\* two processes index the same directory and are asked the same queries
InitDet ==
    /\ files \in Corpora
    /\ \E order \in Perms({docA, docB}) :
          /\ hash_order = order
          /\ inverted_index = Fresh(order).inverted_index
          /\ term_frequency = Fresh(order).term_frequency
          /\ documents = Fresh(order).documents
          /\ last_call = Fresh(order).last_call
    /\ \E order \in Perms({docA, docB}) : other = Fresh(order)

BuildBoth(listing) ==
    \E r \in {build_index(other.inverted_index, other.term_frequency, listing)} :
        /\ DoBuild(listing)
        /\ other' = [other EXCEPT
                        !.inverted_index = r.inverted_index,
                        !.term_frequency = r.term_frequency,
                        !.documents = r.documents,
                        !.last_call = [op |-> "build_index", arg |-> <<>>,
                                       ok |-> TRUE, ret |-> <<>>,
                                       disposition |-> "", term |-> <<>>,
                                       looked |-> 0, log |-> r.log]]
        /\ UNCHANGED <<files, hash_order>>

SearchBoth(query) ==
    \E r \in {search(other.inverted_index, other.term_frequency,
                     other.hash_order, query)} :
        /\ DoSearch(query)
        /\ other' = [other EXCEPT
                        !.inverted_index = r.inverted_index,
                        !.term_frequency = r.term_frequency,
                        !.last_call = [op |-> "search", arg |-> query,
                                       ok |-> TRUE, ret |-> r.ret,
                                       disposition |-> r.disposition,
                                       term |-> r.term, looked |-> r.looked,
                                       log |-> <<>>]]
        /\ UNCHANGED <<files, hash_order, documents>>

NextDet ==
    \/ \E listing \in Perms(Directory) : BuildBoth(listing)
    \/ \E query \in Queries : SearchBoth(query)

SpecDet == InitDet /\ [][NextDet]_vars

\* ---------------------------------------------------------------- the claims
AllDocs == Directory \cup FileNames

\* the posting set of a term, empty when the term is no key
Posting(t) == IF t \in DOMAIN inverted_index THEN inverted_index[t] ELSE {}

\* the stored count of a (term, document) pair, 0 when there is none
Freq(t, d) ==
    IF t \in DOMAIN term_frequency THEN counter_get(term_frequency[t], d) ELSE 0

\* the number of times a term occurs in a text
Occurrences(t, content) ==
    LET toks == tokens_of(content)
    IN  Cardinality({i \in DOMAIN toks : toks[i] = t})

\* the normalized terms of a query
QueryTerms(query) == filter_tokens(findall(lower(query)))

Distinct(seq) == \A i, j \in DOMAIN seq : i # j => seq[i] # seq[j]

RECURSIVE SumSeq(_)
SumSeq(ns) == IF ns = <<>> THEN 0 ELSE Head(ns) + SumSeq(Tail(ns))

ResultDocs(ret) == {ret[i][1] : i \in DOMAIN ret}

Searched == last_call.op = "search"

\* C1: a document is in a term's posting set if and only if the term-frequency
\* table holds a positive count for that (term, document) pair, in every
\* reachable state.
C1_IndexConsistent ==
    \A t \in DOMAIN inverted_index \cup DOMAIN term_frequency :
        \A d \in AllDocs :
            d \in Posting(t) <=> (Freq(t, d) \in Nat /\ Freq(t, d) > 0)

\* C1 witness: a document that build_index had indexed is indexed again by a
\* parse_document call, and another file of the directory cannot be parsed.
C1_Witness ==
    /\ last_call.op = "parse_document"
    /\ last_call.ok
    /\ last_call.arg \in Range(documents)
    /\ \E t \in DOMAIN inverted_index : last_call.arg \in inverted_index[t]
    /\ \E f \in {docA, docB} : ~files[f].ok

\* C2: when every normalized query term is a key of the index, search returns
\* exactly the documents of the intersection of the terms' posting sets.
C2_AndSemantics ==
    Searched =>
        LET terms == QueryTerms(last_call.arg)
        IN  (terms # <<>> /\ \A i \in DOMAIN terms : terms[i] \in DOMAIN inverted_index)
            => ResultDocs(last_call.ret) =
                  {d \in AllDocs : \A i \in DOMAIN terms : d \in inverted_index[terms[i]]}

\* C2 witness: a query of two terms that each match a document, with no
\* document in common, returned nothing.
C2_Witness ==
    /\ Searched
    /\ LET terms == QueryTerms(last_call.arg)
       IN  /\ Len(terms) = 2
           /\ Posting(terms[1]) # {}
           /\ Posting(terms[2]) # {}
           /\ Posting(terms[1]) \cap Posting(terms[2]) = {}
    /\ last_call.ret = <<>>
    /\ last_call.disposition = NO_INTERSECTION

\* C3: for a query of distinct terms, the score of every returned document is
\* the sum over the terms of the term's occurrences in the document's text.
C3_ScoreIsSum ==
    Searched =>
        LET terms == QueryTerms(last_call.arg)
        IN  Distinct(terms) =>
              \A i \in DOMAIN last_call.ret :
                  LET d == last_call.ret[i][1]
                  IN  /\ d \in DOMAIN files
                      /\ files[d].ok
                      /\ last_call.ret[i][2] =
                            SumSeq([k \in DOMAIN terms |->
                                       Occurrences(terms[k], files[d].data)])

\* C3 witness: a two-term query scored a document 2 + 1, after the document
\* was indexed by build_index.
C3_Witness ==
    /\ Searched
    /\ Len(QueryTerms(last_call.arg)) = 2
    /\ Distinct(QueryTerms(last_call.arg))
    /\ documents # <<>>
    /\ \E i \in DOMAIN last_call.ret :
          /\ last_call.ret[i][2] = 3
          /\ Occurrences(QueryTerms(last_call.arg)[1],
                         files[last_call.ret[i][1]].data) = 2
          /\ Occurrences(QueryTerms(last_call.arg)[2],
                         files[last_call.ret[i][1]].data) = 1

\* C4 as claimed: a repeated query term changes neither the result set nor any
\* score, so a query returns what the query of its distinct terms returns.
C4_RepeatNotCounted ==
    Searched =>
        LET terms == QueryTerms(last_call.arg)
            once == search(inverted_index, term_frequency, hash_order,
                           Join(first_seen(terms, <<>>), <<" ">>))
        IN  terms # <<>> =>
              /\ ResultDocs(last_call.ret) = ResultDocs(once.ret)
              /\ \A i \in DOMAIN last_call.ret : \E j \in DOMAIN once.ret :
                    once.ret[j] = last_call.ret[i]

\* C4 amended: a repeated query term does not change the set of documents
\* returned, and the score counts a term once for each time the query names it.
C4_RepeatCountsEachOccurrence ==
    Searched =>
        LET terms == QueryTerms(last_call.arg)
            once == search(inverted_index, term_frequency, hash_order,
                           Join(first_seen(terms, <<>>), <<" ">>))
        IN  terms # <<>> =>
              /\ ResultDocs(last_call.ret) = ResultDocs(once.ret)
              /\ \A i \in DOMAIN last_call.ret :
                    last_call.ret[i][2] =
                       SumSeq([k \in DOMAIN terms |->
                                  Freq(terms[k], last_call.ret[i][1])])

\* C4 witness: the query names one term twice and a document holding the term
\* n > 0 times is returned with score 2n.
C4_Witness ==
    /\ Searched
    /\ LET terms == QueryTerms(last_call.arg)
       IN  /\ Len(terms) = 2
           /\ terms[1] = terms[2]
           /\ \E i \in DOMAIN last_call.ret :
                 /\ Freq(terms[1], last_call.ret[i][1]) > 0
                 /\ last_call.ret[i][2] = 2 * Freq(terms[1], last_call.ret[i][1])

\* C5: when a normalized query term is no key of the index, search returns the
\* empty list and reports the first such term of the query, having looked up
\* no term after it.
C5_UnknownTermShortCircuit ==
    Searched =>
        LET terms == QueryTerms(last_call.arg)
            absent == {i \in DOMAIN terms : terms[i] \notin DOMAIN inverted_index}
        IN  absent # {} =>
              LET first == CHOOSE i \in absent : \A j \in absent : i <= j
              IN  /\ last_call.ret = <<>>
                  /\ last_call.disposition = TERM_NOT_FOUND
                  /\ last_call.term = terms[first]
                  /\ last_call.looked = first

\* C5 witness: the first two terms match documents but share none, the third
\* term is absent, and the third term is the one reported.
C5_Witness ==
    /\ Searched
    /\ LET terms == QueryTerms(last_call.arg)
       IN  /\ Len(terms) = 3
           /\ Posting(terms[1]) # {}
           /\ Posting(terms[2]) # {}
           /\ Posting(terms[1]) \cap Posting(terms[2]) = {}
           /\ terms[3] \notin DOMAIN inverted_index
           /\ last_call.term = terms[3]
    /\ last_call.disposition = TERM_NOT_FOUND

\* C6: a blank query gets the empty-query disposition, a query that is not
\* blank and whose tokens are all stopwords or at most one character long gets
\* the all-stopwords disposition, and both return the empty list without a
\* lookup in the index.
C6_EmptyAndStopwordQueries ==
    Searched =>
        LET blank == \A i \in DOMAIN last_call.arg : last_call.arg[i] \in WhiteSpace
            tokens == findall(lower(last_call.arg))
            dull == \A i \in DOMAIN tokens :
                        tokens[i] \in stopwords \/ Len(tokens[i]) <= 1
        IN  /\ blank => /\ last_call.disposition = EMPTY_QUERY
                        /\ last_call.ret = <<>>
                        /\ last_call.looked = 0
            /\ (~blank /\ dull) => /\ last_call.disposition = ALL_STOPWORDS
                                   /\ last_call.ret = <<>>
                                   /\ last_call.looked = 0

\* C6 witness: with documents indexed, a query made of a stopword and a
\* one-letter token got the all-stopwords disposition.
C6_Witness ==
    /\ Searched
    /\ last_call.disposition = ALL_STOPWORDS
    /\ Len(findall(lower(last_call.arg))) = 2
    /\ inverted_index # <<>>
    /\ documents # <<>>

\* C7: search returns each document of the intersection exactly once, in
\* non-increasing order of score.
C7_RankingOrder ==
    Searched =>
        LET terms == QueryTerms(last_call.arg)
            ret == last_call.ret
        IN  /\ last_call.disposition # RESULTS => ret = <<>>
            /\ last_call.disposition = RESULTS =>
                  /\ ResultDocs(ret) =
                        {d \in AllDocs : \A k \in DOMAIN terms : d \in Posting(terms[k])}
                  /\ \A i, j \in DOMAIN ret : i # j => ret[i][1] # ret[j][1]
                  /\ \A i, j \in DOMAIN ret : i < j => ret[i][2] >= ret[j][2]

\* C7 witness: two documents are returned, the one the set iteration yields
\* first has the lower score and is ranked second.
C7_Witness ==
    /\ Searched
    /\ Len(last_call.ret) = 2
    /\ last_call.ret[1][2] > last_call.ret[2][2]
    /\ hash_order[1] = last_call.ret[2][1]

\* C8: two engines that indexed the same corpus and were asked the same
\* queries report the same disposition and the same ranked list.
C8_Determinism ==
    (Searched /\ other.last_call.op = "search" /\ other.last_call.arg = last_call.arg)
        => /\ other.last_call.disposition = last_call.disposition
           /\ other.last_call.ret = last_call.ret

HtmlFiles == {f \in Directory : endswith(f, HTML) \/ endswith(f, HTM)}

\* C9: a parse_document call that fails changes neither index; build_index
\* calls parse_document on every file of the corpus whatever the earlier calls
\* returned, and leaves in documents exactly the files whose parse succeeded,
\* each of them indexed, and no failed file in any posting set.
C9_PartialFailure ==
    [][ /\ (last_call'.op = "parse_document" /\ ~last_call'.ok)
            => UNCHANGED <<inverted_index, term_frequency, documents>>
        /\ last_call'.op = "build_index" =>
            LET log == last_call'.log
                failed == {log[i].filename : i \in {k \in DOMAIN log : ~log[k].ret}}
            IN  /\ Len(log) = Cardinality(HtmlFiles)
                /\ {log[i].filename : i \in DOMAIN log} = HtmlFiles
                /\ \A f \in failed :
                      \A t \in DOMAIN inverted_index' \cup DOMAIN term_frequency' :
                          /\ (f \in inverted_index'[t]) =
                                (t \in DOMAIN inverted_index /\ f \in inverted_index[t])
                          /\ f \notin inverted_index'[t]
                /\ documents' = SelectSeq([i \in DOMAIN log |-> log[i].filename],
                                          LAMBDA f : f \notin failed)
                /\ Range(documents') = {f \in HtmlFiles : files[f].ok}
                /\ \A f \in Range(documents') :
                      \A t \in Range(tokens_of(files[f].data)) :
                          /\ t \in DOMAIN inverted_index'
                          /\ f \in inverted_index'[t]
      ]_vars

\* C9 witness: build_index met a file that failed to parse first and indexed
\* the file after it.
C9_Witness ==
    /\ last_call.op = "build_index"
    /\ Len(last_call.log) = 2
    /\ ~last_call.log[1].ret
    /\ last_call.log[2].ret
    /\ documents = <<last_call.log[2].filename>>
    /\ \E t \in DOMAIN inverted_index : inverted_index[t] = {documents[1]}

\* C10: search changes neither index nor the document list, whatever its
\* disposition, and the query searched before it still returns what it did.
C10_SearchReadOnly ==
    [][ last_call'.op = "search" =>
          /\ UNCHANGED <<inverted_index, term_frequency, documents>>
          /\ last_call.op = "search" =>
                last_call.ret = search(inverted_index', term_frequency',
                                       hash_order', last_call.arg).ret
      ]_vars

\* C10 witness: a search for a term that is no key of the index, among indexed
\* documents, left the term out of both maps.
C10_Witness ==
    /\ Searched
    /\ last_call.disposition = TERM_NOT_FOUND
    /\ inverted_index # <<>>
    /\ last_call.term \notin DOMAIN inverted_index
    /\ last_call.term \notin DOMAIN term_frequency

=============================================================================
